---- MODULE Spec2Model ----
(***************************************************************************)
(* State-machine model of the chatML similarity service:                   *)
(*   src/src/api/routes/service.py   the /service request pipeline         *)
(*   src/src/core/redis_client.py    the shared Redis store (cache, usage) *)
(*   src/src/core/database.py        the api_keys table, the users store   *)
(*   src/src/ml/model.py             TransHModel.predict_similarity        *)
(*   src/src/api/routes/session.py   /register and /login                  *)
(*   src/src/api/main.py             the startup of the process            *)
(*                                                                         *)
(* Python values are modelled structurally.  An entity input is a record   *)
(* [ty, i, s]: ty = "int" carries i, ty = "str" carries s, ty = "other" is *)
(* any value that is neither (float, None, list).  A ranked result is a    *)
(* sequence of pairs <<label, score>>; scores are integers standing for    *)
(* floats.  A Redis value is a record [t, n, js, exp]: t = "int" is a      *)
(* decimal string (n), t = "json" is JSON text (js), exp is the absolute   *)
(* second at which the key expires, or NoExpiry.                           *)
(***************************************************************************)
EXTENDS Integers, Sequences, FiniteSets, TLC

VARIABLES
    now,          \* time.time(), in seconds
    redis,        \* the Redis keyspace: key string -> value record
    api_keys,     \* rows of the PostgreSQL table api_keys
    heads_idx,    \* TransHModel.heads_idx (0-based list, here 1-based sequence)
    score_row,    \* the oracle's score table, one row drawn per world
    tiebreak,     \* the order torch.topk leaves equal scores in
    h,            \* per worker: the /service request it is handling
    rk,           \* the direct predict_similarity call under observation
    calls,        \* history, per worker: what its current request has done
    reached,      \* history: INCR calls made, per usage key of a live minute
    admitted,     \* history: requests let through, per usage key
    first,        \* history: the first cache=false response of a valid input
    secret_key,   \* os.getenv("SECRET_KEY") of the server process, or NoSecret
    key_padded,   \* whether the api_key column compares blank-padded (CHAR(n))
    users,        \* MongoDB collection "users": documents in insertion order
    sess,         \* per worker: the /register or /login request being handled
    registered,   \* history: (email, password) of the registrations answered 200
    serving       \* whether lifespan_resources has handed control to the app

\* what the /service handler and the ranker never write
world == <<api_keys, heads_idx, score_row, tiebreak, secret_key, key_padded,
           users, sess, registered, serving>>

vars == <<now, redis, world, h, rk, calls, reached, admitted, first>>

----------------------------------------------------------------------------
(* Bounds of the model *)

NumEntities == 3
MaxTopK == 3
MaxOver == 1
MaxTicks == 1

(* Program constants *)

FREEMIUM_LIMIT == 5
PREMIUM_LIMIT == 50
WINDOW_SECONDS == 60
EXPIRE_SECONDS == 60
DEFAULT_RELATION_IDX == 5
DEFAULT_TOP_K == 10
TOKEN_SECONDS == 3600

HTTP_200_OK == 200
HTTP_400_BAD_REQUEST == 400
HTTP_401_UNAUTHORIZED == 401
HTTP_429_TOO_MANY_REQUESTS == 429
HTTP_500_INTERNAL_SERVER_ERROR == 500

NoExpiry == -1

\* the uvicorn workers that serve requests side by side
Procs == {1, 2}

\* the clock advances a window at a time
TickSeconds == WINDOW_SECONDS

----------------------------------------------------------------------------
(* The entity space and the candidate set (TransHModel.load) *)

EntityIds == 0 .. (NumEntities - 1)

\* triples_factory.entity_id_to_label
EntityIdToLabel(e) == "e" \o ToString(e)

\* triples_factory.entity_to_id: the labels it holds
EntityLabels == {EntityIdToLabel(e) : e \in EntityIds}

\* triples_factory.entity_to_id[label]
EntityToId(label) == CHOOSE e \in EntityIds : EntityIdToLabel(e) = label

\* `x in self.heads_idx`
InHeads(x) == \E k \in 1 .. Len(heads_idx) : heads_idx[k] = x

IntInput(n) == [ty |-> "int", i |-> n, s |-> ""]
StrInput(str) == [ty |-> "str", i |-> 0, s |-> str]
OtherInput == [ty |-> "other", i |-> 0, s |-> ""]

----------------------------------------------------------------------------
(* TransHModel._validate_input: returns the entity id or raises *)

Valid(id) == [ok |-> TRUE, id |-> id, exc |-> "", site |-> "", msg |-> ""]

Raise(exc, site, msg) == [ok |-> FALSE, id |-> 0, exc |-> exc, site |-> site, msg |-> msg]

\* the mutated handler: `except (KeyError, ValueError)` also swallows the
\* "not allowed" error raised inside the try block
ValidateInputSwallow(x) ==
    IF x.ty = "int"
    THEN IF InHeads(x.i) THEN Valid(x.i)
         ELSE Raise("ValueError", "id_not_in_heads",
                    "ID '" \o ToString(x.i) \o "' not found in heads_idx.")
    ELSE IF x.ty = "str"
    THEN IF x.s \in EntityLabels /\ InHeads(EntityToId(x.s))
         THEN Valid(EntityToId(x.s))
         ELSE Raise("ValueError", "label_not_found",
                    "Entity label '" \o x.s \o "' not found in TriplesFactory.")
    ELSE Raise("TypeError", "bad_type",
               "entity_input must be an integer (ID) or a string (label).")

\* each raise statement is a site: lines 149, 155, 158 and 161
ValidateInput(x) ==
    IF x.ty = "int"
    THEN IF InHeads(x.i) THEN Valid(x.i)
         ELSE Raise("ValueError", "id_not_in_heads",
                    "ID '" \o ToString(x.i) \o "' not found in heads_idx.")
    ELSE IF x.ty = "str"
    THEN IF x.s \in EntityLabels
         THEN IF InHeads(EntityToId(x.s)) THEN Valid(EntityToId(x.s))
              ELSE Raise("ValueError", "label_not_allowed",
                         "Entity label '" \o x.s \o "' (ID "
                             \o ToString(EntityToId(x.s))
                             \o ") not allowed (not in heads_idx).")
         ELSE Raise("ValueError", "label_not_found",
                    "Entity label '" \o x.s \o "' not found in TriplesFactory.")
    ELSE Raise("TypeError", "bad_type",
               "entity_input must be an integer (ID) or a string (label).")

----------------------------------------------------------------------------
(* The Similarity Oracle, model.score_t: one score per entity of the space *)

ScoreT(valid_id, relation_idx) ==
    [e \in EntityIds |-> score_row[(e + valid_id + relation_idx) % NumEntities]]

\* torch.topk(scores, k=N, largest=False): comparison of two entity indices
TopKBefore(scores, a, b) ==
    \/ scores[a] < scores[b]
    \/ scores[a] = scores[b] /\ tiebreak[a] < tiebreak[b]

RECURSIVE TopKIndices(_, _)
TopKIndices(scores, S) ==
    IF S = {} THEN <<>>
    ELSE LET m == CHOOSE a \in S : \A b \in S \ {a} : TopKBefore(scores, a, b)
         IN <<m>> \o TopKIndices(scores, S \ {m})

TopKValues(scores, indices) == [k \in 1 .. Len(indices) |-> scores[indices[k]]]

----------------------------------------------------------------------------
(* TransHModel._safe_resolve: heads_idx[index], None on IndexError.  A      *)
(* Python list index may be negative (it counts from the end).             *)

Some(v) == [some |-> TRUE, v |-> v]
NoneValue == [some |-> FALSE, v |-> 0]

SafeResolve(index) ==
    IF 0 <= index /\ index < Len(heads_idx) THEN Some(heads_idx[index + 1])
    ELSE IF index < 0 /\ -index <= Len(heads_idx)
    THEN Some(heads_idx[Len(heads_idx) + index + 1])
    ELSE NoneValue

(* TransHModel._extract_top_entities: the loop from position k on *)

RECURSIVE ExtractFrom(_, _, _, _, _)
ExtractFrom(values, indices, top_k, k, results) ==
    IF k > Len(indices) THEN results
    ELSE LET resolved_id == SafeResolve(indices[k])
         IN IF resolved_id.some
            THEN LET r2 == Append(results,
                                  <<EntityIdToLabel(resolved_id.v), values[k]>>)
                 IN IF Len(r2) >= top_k THEN r2
                    ELSE ExtractFrom(values, indices, top_k, k + 1, r2)
            ELSE ExtractFrom(values, indices, top_k, k + 1, results)

ExtractTopEntities(values, indices, top_k) ==
    ExtractFrom(values, indices, top_k, 1, <<>>)

(* TransHModel.predict_similarity *)

PredictSimilarity(entity_input, relation_idx, top_k) ==
    LET v == ValidateInput(entity_input)
    IN IF ~v.ok THEN << <<v.msg, -1>> >>
       ELSE LET scores == ScoreT(v.id, relation_idx)
                indices == TopKIndices(scores, EntityIds)
                values == TopKValues(scores, indices)
            IN ExtractTopEntities(values, indices, top_k)

----------------------------------------------------------------------------
(* The Redis server behind get_redis_client(): one keyspace for the usage  *)
(* counters and the cached results.                                        *)

IntValue(n, exp) == [t |-> "int", n |-> n, js |-> <<>>, exp |-> exp]
JsonValue(js) == [t |-> "json", n |-> 0, js |-> js, exp |-> NoExpiry]

RedisHas(store, key) == key \in DOMAIN store

RedisPut(store, key, val) ==
    [k \in DOMAIN store \cup {key} |-> IF k = key THEN val ELSE store[k]]

\* the mutated INCR: the incremented value is returned but never written
RedisIncrLost(store, key) ==
    IF ~RedisHas(store, key)
    THEN [err |-> FALSE, n |-> 1, store |-> RedisPut(store, key, IntValue(1, NoExpiry))]
    ELSE IF store[key].t = "int"
    THEN [err |-> FALSE, n |-> store[key].n + 1, store |-> store]
    ELSE [err |-> TRUE, n |-> 0, store |-> store]

\* INCR: a missing key counts from 0, an integer string is incremented and
\* keeps its expiry, any other string is a ResponseError
RedisIncr(store, key) ==
    IF ~RedisHas(store, key)
    THEN [err |-> FALSE, n |-> 1, store |-> RedisPut(store, key, IntValue(1, NoExpiry))]
    ELSE IF store[key].t = "int"
    THEN [err |-> FALSE, n |-> store[key].n + 1,
          store |-> RedisPut(store, key, IntValue(store[key].n + 1, store[key].exp))]
    ELSE [err |-> TRUE, n |-> 0, store |-> store]

\* EXPIRE key seconds: no effect on a missing key
RedisExpire(store, key, seconds, t) ==
    IF RedisHas(store, key)
    THEN RedisPut(store, key, [store[key] EXCEPT !.exp = t + seconds])
    ELSE store

\* the mutated SET: the value is never written
RedisSetLost(store, key, js) == store

\* SET key value: replaces the value and discards the expiry
RedisSet(store, key, js) == RedisPut(store, key, JsonValue(js))

\* the keys still alive at second t
RedisAlive(store, t) ==
    [k \in {k2 \in DOMAIN store : store[k2].exp = NoExpiry \/ store[k2].exp > t}
        |-> store[k]]

\* redis-py encodes a key by type: an int as its decimal digits, a str as is
RedisKeyOf(x) == IF x.ty = "int" THEN ToString(x.i) ELSE x.s

\* json.dumps of a list of (label, score) tuples, and json.loads of it
JsonDumps(results) ==
    [k \in 1 .. Len(results) |-> [s |-> results[k][1], f |-> results[k][2]]]

JsonLoads(js) == [k \in 1 .. Len(js) |-> <<js[k].s, js[k].f>>]

----------------------------------------------------------------------------
(* RATE_LIMITS and the usage key of _check_rate_limit *)

\* the mutated lookup: an unknown account type gets the PREMIUM limit
RateLimitOfPremiumDefault(account_type) ==
    IF account_type = "FREEMIUM" THEN FREEMIUM_LIMIT ELSE PREMIUM_LIMIT

\* RATE_LIMITS.get(account_type, RATE_LIMITS["FREEMIUM"])
RateLimitOf(account_type) ==
    IF account_type = "FREEMIUM" THEN FREEMIUM_LIMIT
    ELSE IF account_type = "PREMIUM" THEN PREMIUM_LIMIT
    ELSE FREEMIUM_LIMIT

CurrentMinute(t) == t \div WINDOW_SECONDS

UsageKey(api_key, minute) == "usage:" \o api_key \o ":" \o ToString(minute)

----------------------------------------------------------------------------
(* core/database.py: get_api_key_info *)

NoRow == [found |-> FALSE, api_key |-> "", user_email |-> "", account_type |-> ""]

\* a string without its trailing blanks
RECURSIVE RTrim(_)
RTrim(str) ==
    IF Len(str) > 0 /\ SubSeq(str, Len(str), Len(str)) = " "
    THEN RTrim(SubSeq(str, 1, Len(str) - 1))
    ELSE str

\* `WHERE api_key = %s`: a CHAR(n) column ignores trailing blanks when it
\* compares, a TEXT or VARCHAR column does not
KeyMatches(stored, supplied) ==
    IF key_padded THEN RTrim(stored) = RTrim(supplied) ELSE stored = supplied

\* the mutated lookup: the registry has no row for any key
GetApiKeyInfoNothing(api_key) == NoRow

GetApiKeyInfo(api_key) ==
    IF \E row \in api_keys : KeyMatches(row.api_key, api_key)
    THEN LET row == CHOOSE r \in api_keys : KeyMatches(r.api_key, api_key)
         IN [found |-> TRUE, api_key |-> row.api_key,
             user_email |-> row.user_email, account_type |-> row.account_type]
    ELSE NoRow

\* the mutated check: a row is enough, its key is not compared
KeyResolvedNoEcho(database_info, api_key) == database_info.found

\* line 83 of similarity_service, negated: a row came back and it echoes
\* the supplied key
KeyResolved(database_info, api_key) ==
    database_info.found /\ database_info.api_key = api_key

----------------------------------------------------------------------------
(* The Authorization header and jwt.decode.  A header is a record          *)
(* [scheme, signed, wellformed, exp, sub].                                 *)

NoHeader == [scheme |-> "none", signed |-> FALSE, wellformed |-> FALSE,
             exp |-> 0, sub |-> ""]

Bearer(signed, exp, sub) ==
    [scheme |-> "Bearer", signed |-> signed, wellformed |-> TRUE,
     exp |-> exp, sub |-> sub]

NoSecret == "None"

\* the mutated gate: the expiry is looked at before the signature
AuthGateExpiryFirst(hdr, t) ==
    IF hdr.scheme # "Bearer" THEN "JWT Token not provided."
    ELSE IF ~hdr.wellformed THEN "Invalid JWT Token."
    ELSE IF secret_key = NoSecret THEN "TypeError"
    ELSE IF hdr.exp <= t THEN "JWT Token has expired."
    ELSE IF ~hdr.signed THEN "Invalid JWT Token."
    ELSE ""

\* lines 54-73 of similarity_service: "" when the token verifies, the detail
\* of the 401 when it does not, "TypeError" when jwt.decode is given no key
\* (it parses the token, prepares the key, checks the signature and then
\* the exp claim)
AuthGate(hdr, t) ==
    IF hdr.scheme # "Bearer" THEN "JWT Token not provided."
    ELSE IF ~hdr.wellformed THEN "Invalid JWT Token."
    ELSE IF secret_key = NoSecret THEN "TypeError"
    ELSE IF ~hdr.signed THEN "Invalid JWT Token."
    ELSE IF hdr.exp <= t THEN "JWT Token has expired."
    ELSE ""

----------------------------------------------------------------------------
(* api/routes/session.py: /register and /login.  A document of the users   *)
(* collection is a record [email, password], the password being the bcrypt *)
(* hash: a record [pw, salt] that verifies the one password it was made of *)

MaxUsers == 2

CONDITION == "gmail.com"

\* pwd_context.hash and pwd_context.verify
Hash(password, salt) == [pw |-> password, salt |-> salt]

Verify(password, hashed_pw) == hashed_pw.pw = password

NoUser == [found |-> FALSE, email |-> "", password |-> Hash("", "")]

\* the mutated lookup: no document is ever found
FindOneNothing(email) == NoUser

\* collection.find_one({"email": email}): the first matching document
FindOne(email) ==
    IF \E k \in 1 .. Len(users) : users[k].email = email
    THEN LET k == CHOOSE i \in 1 .. Len(users) :
                      /\ users[i].email = email
                      /\ \A j \in 1 .. i - 1 : users[j].email # email
         IN [found |-> TRUE, email |-> users[k].email,
             password |-> users[k].password]
    ELSE NoUser

\* sub in str, of Python strings
Contains(str, sub) ==
    \E k \in 1 .. Len(str) - Len(sub) + 1 :
        SubSeq(str, k, k + Len(sub) - 1) = sub

\* the mutated rule: every account is FREEMIUM
AccountTypeOfFreemium(user_email) == "FREEMIUM"

\* line 97 of insert_api_key_in_db
AccountTypeOf(user_email) ==
    IF Contains(user_email, CONDITION) THEN "PREMIUM" ELSE "FREEMIUM"

\* the keys of the table
IssuedKeys == {row.api_key : row \in api_keys}

\* secrets.token_hex(API_KEY_LENGTH): a key no row of the table carries
NewApiKey == "N" \o ToString(Cardinality(api_keys))

\* the mutated verification: the password is not looked at
VerifyUserCredentialsAnyPassword(email, password) == FindOne(email).found

\* _verify_user_credentials
VerifyUserCredentials(email, password) ==
    LET user == FindOne(email)
    IN  user.found /\ Verify(password, user.password)

\* jwt.encode({"sub": user_email, "exp": int(time.time()) + 3600}, SECRET_KEY)
GenerateJwtForUser(user_email, t) == Bearer(TRUE, t + TOKEN_SECONDS, user_email)

SessIdle ==
    [pc |-> "idle", op |-> "", email |-> "", password |-> "",
     hashed_pw |-> Hash("", ""), status |-> 0, detail |-> "",
     api_key |-> "", account_type |-> "", token |-> NoHeader]

\* the response leaves the handler; its local hashed_pw is gone
SessRespond(r, status, detail) ==
    [r EXCEPT !.pc = "done", !.status = status, !.detail = detail,
              !.hashed_pw = Hash("", "")]

\* what the session handlers never write
service_state == <<now, redis, heads_idx, score_row, tiebreak, secret_key,
                   key_padded, h, rk, calls, reached, admitted, first, serving>>

\* register_user up to find_one of create_user_in_db: an existing document
\* makes create_user_in_db return False and the handler answer 400
RegisterStart(p, email, password, salt) ==
    /\ serving
    /\ sess[p].pc = "idle"
    /\ Len(users) < MaxUsers \/ FindOne(email).found
    /\ LET r == [SessIdle EXCEPT !.op = "register", !.email = email,
                                 !.password = password,
                                 !.hashed_pw = Hash(password, salt)]
       IN  sess' = [sess EXCEPT ![p] =
                IF FindOne(email).found
                THEN SessRespond(r, HTTP_400_BAD_REQUEST,
                         "User already exists or error creating user.")
                ELSE [r EXCEPT !.pc = "insert_one"]]
    /\ UNCHANGED <<service_state, api_keys, users, registered>>

\* users_collection.insert_one of create_user_in_db
RegisterInsertOne(p) ==
    /\ sess[p].pc = "insert_one"
    /\ users' = Append(users, [email |-> sess[p].email,
                               password |-> sess[p].hashed_pw])
    /\ sess' = [sess EXCEPT ![p].pc = "insert_key",
                            ![p].hashed_pw = Hash("", "")]
    /\ UNCHANGED <<service_state, api_keys, registered>>

\* insert_api_key_in_db and the response of register_user.  The INSERT may
\* fail: the function then returns "" and db_response[0] raises IndexError
RegisterInsertKey(p) ==
    /\ sess[p].pc = "insert_key"
    /\ \E inserted \in BOOLEAN :
        IF inserted
        THEN /\ api_keys' = api_keys \cup
                    {[api_key |-> NewApiKey, user_email |-> sess[p].email,
                      account_type |-> AccountTypeOf(sess[p].email)]}
             /\ sess' = [sess EXCEPT ![p] =
                    [SessRespond(sess[p], HTTP_200_OK,
                                 "User registered successfully.")
                        EXCEPT !.api_key = NewApiKey,
                               !.account_type = AccountTypeOf(sess[p].email)]]
             /\ registered' = registered \cup
                    {<<sess[p].email, sess[p].password>>}
        ELSE /\ sess' = [sess EXCEPT ![p] =
                    SessRespond(sess[p], HTTP_500_INTERNAL_SERVER_ERROR,
                                "IndexError")]
             /\ UNCHANGED <<api_keys, registered>>
    /\ UNCHANGED <<service_state, users>>

\* login_user: _generate_jwt_for_user raises without a secret (the
\* HTTPException it builds takes no keyword message: a TypeError, 500)
LoginUser(p, email, password) ==
    /\ serving
    /\ sess[p].pc = "idle"
    /\ LET r == [SessIdle EXCEPT !.op = "login", !.email = email,
                                 !.password = password]
       IN  sess' = [sess EXCEPT ![p] =
                IF ~VerifyUserCredentials(email, password)
                THEN SessRespond(r, HTTP_400_BAD_REQUEST,
                                 "Invalid email or password.")
                ELSE IF secret_key = NoSecret
                THEN SessRespond(r, HTTP_500_INTERNAL_SERVER_ERROR, "TypeError")
                ELSE [SessRespond(r, HTTP_200_OK, "Welcome back!")
                        EXCEPT !.token = GenerateJwtForUser(email, now)]]
    /\ UNCHANGED <<service_state, api_keys, users, registered>>

\* the response is sent
SessionFinish(p) ==
    /\ sess[p].pc = "done"
    /\ sess' = [sess EXCEPT ![p] = SessIdle]
    /\ UNCHANGED <<service_state, api_keys, users, registered>>

----------------------------------------------------------------------------
(* One /service request per worker *)

Idle == [pc |-> "idle", api_key |-> "", entity_input |-> IntInput(0),
         account_type |-> "", redis_key |-> "", usage_count |-> 0,
         probability |-> <<>>, status |-> 0, detail |-> "",
         cache |-> FALSE, result |-> <<>>]

NoCalls == [stages |-> <<>>, ukey |-> "", arrival |-> 0, count |-> 0,
            lookup |-> "", after |-> FALSE, hdr |-> NoHeader]

\* the record of a request that has just come in
Arrived(hdr) == [NoCalls EXCEPT !.hdr = hdr]

Respond(r, status, detail, cache, result) ==
    [r EXCEPT !.pc = "done", !.status = status, !.detail = detail,
              !.cache = cache, !.result = result]

Count(f, key) == IF key \in DOMAIN f THEN f[key] ELSE 0

Bump(f, key) ==
    [k \in DOMAIN f \cup {key} |-> IF k = key THEN Count(f, k) + 1 ELSE f[k]]

Reached(key) == Count(reached, key)

Stage(c, names) == [c EXCEPT !.stages = @ \o names]

\* lines 53-87: AuthGate, then the API key and its row
ServiceStart(p, hdr, api_key, entity_input) ==
    /\ serving
    /\ h[p].pc = "idle"
    /\ Reached(UsageKey(api_key, CurrentMinute(now)))
          < RateLimitOf(GetApiKeyInfo(api_key).account_type) + MaxOver
    /\ LET auth == AuthGate(hdr, now)
           database_info == GetApiKeyInfo(api_key)
           c == Arrived(hdr)
       IN IF auth = "TypeError"
          THEN /\ h' = [h EXCEPT ![p] = Respond(Idle, HTTP_500_INTERNAL_SERVER_ERROR,
                                                auth, FALSE, <<>>)]
               /\ calls' = [calls EXCEPT ![p] = Stage(c, <<"auth">>)]
          ELSE IF auth # ""
          THEN /\ h' = [h EXCEPT ![p] = Respond(Idle, HTTP_401_UNAUTHORIZED, auth,
                                                FALSE, <<>>)]
               /\ calls' = [calls EXCEPT ![p] = Stage(c, <<"auth">>)]
          ELSE IF api_key = ""
          THEN /\ h' = [h EXCEPT ![p] = Respond(Idle, HTTP_401_UNAUTHORIZED,
                                                "API Key not provided.", FALSE, <<>>)]
               /\ calls' = [calls EXCEPT ![p] = Stage(c, <<"auth">>)]
          ELSE IF ~KeyResolved(database_info, api_key)
          THEN /\ h' = [h EXCEPT ![p] = Respond([Idle EXCEPT !.api_key = api_key],
                                                HTTP_401_UNAUTHORIZED,
                                                "Invalid API Key.", FALSE, <<>>)]
               /\ calls' = [calls EXCEPT ![p] = Stage(c, <<"auth", "registry">>)]
          ELSE /\ h' = [h EXCEPT ![p] =
                          [Idle EXCEPT !.pc = "rate", !.api_key = api_key,
                                       !.entity_input = entity_input,
                                       !.account_type = database_info.account_type]]
               /\ calls' = [calls EXCEPT ![p] =
                              [Stage(c, <<"auth", "registry">>) EXCEPT
                                  !.after = entity_input \in DOMAIN first]]
    /\ UNCHANGED <<now, redis, world, reached, admitted, first, rk>>

\* the mutated check: the excess is logged but no HTTPException is raised
CheckLimitNoRaise(r) == [r EXCEPT !.pc = "cache", !.redis_key = "", !.usage_count = 0]

\* lines 143-150: the limit of the account type against the usage count;
\* on return the locals of _check_rate_limit are gone
CheckLimit(r) ==
    IF r.usage_count > RateLimitOf(r.account_type)
    THEN Respond(r, HTTP_429_TOO_MANY_REQUESTS,
                 "Rate limit exceeded. Please try again later.", FALSE, <<>>)
    ELSE [r EXCEPT !.pc = "cache", !.redis_key = "", !.usage_count = 0]

\* the requests let through, counted per usage key
Admit(r) == IF CheckLimit(r).pc = "cache" THEN Bump(admitted, r.redis_key) ELSE admitted

\* lines 132-137: the usage key of the current minute and its INCR
ServiceIncr(p) ==
    /\ h[p].pc = "rate"
    /\ LET redis_key == UsageKey(h[p].api_key, CurrentMinute(now))
           res == RedisIncr(redis, redis_key)
           r == [h[p] EXCEPT !.redis_key = redis_key, !.usage_count = res.n]
       IN /\ redis' = res.store
          /\ reached' = Bump(reached, redis_key)
          /\ h' = [h EXCEPT ![p] =
                     IF res.err
                     THEN Respond(r, HTTP_500_INTERNAL_SERVER_ERROR,
                                  "ResponseError", FALSE, <<>>)
                     ELSE IF res.n = 1 THEN [r EXCEPT !.pc = "expire"]
                     ELSE CheckLimit(r)]
          /\ admitted' = IF ~res.err /\ res.n # 1 THEN Admit(r) ELSE admitted
          /\ calls' = [calls EXCEPT ![p] =
                         [Stage(@, <<"incr">>) EXCEPT
                             !.ukey = redis_key,
                             !.arrival = Reached(redis_key) + 1, !.count = res.n]]
    /\ UNCHANGED <<now, world, first, rk>>

\* lines 140-141: the first request of the minute sets the expiry
ServiceExpire(p) ==
    /\ h[p].pc = "expire"
    /\ redis' = RedisExpire(redis, h[p].redis_key, EXPIRE_SECONDS, now)
    /\ h' = [h EXCEPT ![p] = CheckLimit(h[p])]
    /\ admitted' = Admit(h[p])
    /\ calls' = [calls EXCEPT ![p] = Stage(@, <<"expire">>)]
    /\ UNCHANGED <<now, world, reached, first, rk>>

\* the mutated lookup: the cached data is never used
CacheHitNever(store, key) == FALSE

\* get_cached_results, lines 43-44: GET and `if cached_data:`
CacheHit(store, key) == RedisHas(store, key)

\* lines 95-105 and get_cached_results: the lookup; on a miss the inference
ServiceLookup(p) ==
    /\ h[p].pc = "cache"
    /\ LET key == RedisKeyOf(h[p].entity_input)
           c == [Stage(calls[p], <<"get">>) EXCEPT
                    !.ukey = "", !.arrival = 0, !.count = 0,
                    !.lookup = IF RedisHas(redis, key) THEN "present" ELSE "absent"]
       IN IF CacheHit(redis, key)
          THEN /\ h' = [h EXCEPT ![p] =
                          IF redis[key].t = "json"
                          THEN Respond(@, HTTP_200_OK, "", TRUE, JsonLoads(redis[key].js))
                          ELSE Respond(@, HTTP_500_INTERNAL_SERVER_ERROR,
                                       "ValidationError", FALSE, <<>>)]
               /\ calls' = [calls EXCEPT ![p] = c]
          ELSE /\ h' = [h EXCEPT ![p] =
                          [@ EXCEPT !.pc = "store",
                                    !.probability = PredictSimilarity(
                                        h[p].entity_input, DEFAULT_RELATION_IDX,
                                        DEFAULT_TOP_K)]]
               /\ calls' = [calls EXCEPT ![p] =
                              IF ValidateInput(h[p].entity_input).ok
                              THEN Stage(c, <<"rank", "oracle">>)
                              ELSE Stage(c, <<"rank">>)]
    /\ UNCHANGED <<now, redis, world, reached, admitted, first, rk>>

\* lines 107-114 and set_cached_results: the store and the response
ServiceStore(p) ==
    /\ h[p].pc = "store"
    /\ redis' = RedisSet(redis, RedisKeyOf(h[p].entity_input),
                         JsonDumps(h[p].probability))
    /\ h' = [h EXCEPT ![p] = Respond(@, HTTP_200_OK, "", FALSE, h[p].probability)]
    /\ first' = IF ValidateInput(h[p].entity_input).ok
                   /\ h[p].entity_input \notin DOMAIN first
                THEN [x \in DOMAIN first \cup {h[p].entity_input} |->
                         IF x = h[p].entity_input THEN h[p].probability ELSE first[x]]
                ELSE first
    /\ calls' = [calls EXCEPT ![p] = Stage(@, <<"set">>)]
    /\ UNCHANGED <<now, world, reached, admitted, rk>>

\* the response has been sent; the worker takes the next request
ServiceFinish(p) ==
    /\ h[p].pc = "done"
    /\ h' = [h EXCEPT ![p] = Idle]
    /\ calls' = [calls EXCEPT ![p] = NoCalls]
    /\ UNCHANGED <<now, redis, world, reached, admitted, first, rk>>

\* the usage keys of the minutes from m on
LiveUsageKeys(m) ==
    {UsageKey(r.api_key, w) : r \in api_keys, w \in m .. MaxTicks}

Prune(f, m) == [k \in DOMAIN f \cap LiveUsageKeys(m) |-> f[k]]

\* time passes; Redis drops the keys whose expiry has come
Tick ==
    /\ now + TickSeconds <= MaxTicks * TickSeconds
    /\ now' = now + TickSeconds
    /\ redis' = RedisAlive(redis, now + TickSeconds)
    /\ reached' = Prune(reached, CurrentMinute(now + TickSeconds))
    /\ admitted' = Prune(admitted, CurrentMinute(now + TickSeconds))
    /\ UNCHANGED <<world, h, calls, first, rk>>

----------------------------------------------------------------------------
(* The requests the clients send *)

ValidHeader == Bearer(TRUE, 3600, "a@x.org")
ExpiredHeader == Bearer(TRUE, 0, "a@x.org")
TamperedHeader == Bearer(FALSE, 3600, "a@x.org")

Headers == {NoHeader, ValidHeader, ExpiredHeader, TamperedHeader}

\* a valid id and the string of the same digits
ServiceInputs == {IntInput(0), StrInput("0")}

ServiceKeys == {"K1", "", "KX"}

RankIdle == [called |-> FALSE, entity_input |-> IntInput(0), top_k |-> 0,
             v |-> Raise("", "", ""),
             result |-> <<>>]

InitModelPipeline ==
    /\ heads_idx = <<1, 0>>
    /\ score_row = [e \in EntityIds |-> (e % 2) - 1]
    /\ tiebreak = [e \in EntityIds |-> e]

InitService ==
    /\ now = 0
    /\ redis = <<>>
    /\ api_keys = {[api_key |-> "K1", user_email |-> "a@x.org", account_type |-> "FREEMIUM"],
                   [api_key |-> "K2", user_email |-> "b@gmail.com", account_type |-> "PREMIUM"],
                   [api_key |-> "K3", user_email |-> "c@x.org", account_type |-> "GOLD"]}
    /\ InitModelPipeline
    /\ h = [p \in Procs |-> Idle]
    /\ calls = [p \in Procs |-> NoCalls]
    /\ reached = <<>>
    /\ admitted = <<>>
    /\ first = <<>>
    /\ rk = RankIdle
    /\ users = <<[email |-> "a@x.org", password |-> Hash("pw1", "s1")],
                 [email |-> "b@gmail.com", password |-> Hash("pw1", "s1")],
                 [email |-> "c@x.org", password |-> Hash("pw1", "s1")]>>
    /\ sess = [p \in Procs |-> SessIdle]
    /\ registered = {}

\* a process started with its secret, on a registry that compares exactly
Init ==
    /\ InitService
    /\ secret_key = "s3cret"
    /\ serving = TRUE
    /\ key_padded = FALSE

Next ==
    \/ Tick
    \/ \E p \in Procs :
        \/ \E hdr \in Headers, k \in ServiceKeys, x \in ServiceInputs :
              ServiceStart(p, hdr, k, x)
        \/ ServiceIncr(p)
        \/ ServiceExpire(p)
        \/ ServiceLookup(p)
        \/ ServiceStore(p)
        \/ ServiceFinish(p)

Spec == Init /\ [][Next]_vars

----------------------------------------------------------------------------
(* Authenticated traffic on key K1 whose entity inputs may also spell a    *)
(* usage key: the counters and the cached results share one Redis keyspace *)

\* the inputs of ServiceInputs and the string that is K1's usage key of
\* minute 1
SharedInputs == ServiceInputs \cup {StrInput(UsageKey("K1", 1))}

NextShared ==
    \/ Tick
    \/ \E p \in Procs :
        \/ \E x \in SharedInputs : ServiceStart(p, ValidHeader, "K1", x)
        \/ ServiceIncr(p)
        \/ ServiceExpire(p)
        \/ ServiceLookup(p)
        \/ ServiceStore(p)
        \/ ServiceFinish(p)

SpecShared == Init /\ [][NextShared]_vars

----------------------------------------------------------------------------
(* Authenticated traffic on two keys of one limit, K1 and K3, within one   *)
(* window; an entity input may spell the usage key of the other key        *)

PairKeys == {"K1", "K3"}

PairInputs == {IntInput(0), StrInput(UsageKey("K3", 0))}

NextPair ==
    \E p \in Procs :
        \/ \E k \in PairKeys, x \in PairInputs : ServiceStart(p, ValidHeader, k, x)
        \/ ServiceIncr(p)
        \/ ServiceExpire(p)
        \/ ServiceLookup(p)
        \/ ServiceStore(p)
        \/ ServiceFinish(p)

SpecPair == Init /\ [][NextPair]_vars

----------------------------------------------------------------------------
(* One request at a time with every kind of Authorization header and API   *)
(* key, on either kind of api_key column                                   *)

BasicHeader == [scheme |-> "Basic", signed |-> FALSE, wellformed |-> FALSE,
                exp |-> 0, sub |-> ""]

\* the exp claims: passed at the start, passing at the first tick, far off
GateExpiries == {0, TickSeconds, TOKEN_SECONDS}

GateHeaders ==
    {NoHeader, BasicHeader}
        \cup {[scheme |-> "Bearer", signed |-> sg, wellformed |-> wf,
                exp |-> e, sub |-> "a@x.org"] :
                  sg \in BOOLEAN, wf \in BOOLEAN, e \in GateExpiries}

\* a key of the table, no key, an unknown key, a key of the table followed
\* by a blank
GateKeys == {"K1", "", "KX", "K1 "}

InitGate ==
    /\ InitService
    /\ secret_key = "s3cret"
    /\ serving = TRUE
    /\ key_padded \in BOOLEAN

NextGate ==
    \/ Tick
    \/ \E hdr \in GateHeaders, k \in GateKeys : ServiceStart(1, hdr, k, IntInput(0))
    \/ ServiceIncr(1)
    \/ ServiceExpire(1)
    \/ ServiceLookup(1)
    \/ ServiceStore(1)
    \/ ServiceFinish(1)

SpecGate == InitGate /\ [][NextGate]_vars

----------------------------------------------------------------------------
(* Registrations and logins on both workers, from empty stores *)

SessionEmails == {"a@x.org", "b@gmail.com"}
SessionPasswords == {"pw1", "pw2"}
Salts == {"s1", "s2"}

InitSession ==
    /\ now = 0
    /\ redis = <<>>
    /\ api_keys = {}
    /\ InitModelPipeline
    /\ secret_key = "s3cret"
    /\ serving = TRUE
    /\ key_padded = FALSE
    /\ h = [p \in Procs |-> Idle]
    /\ calls = [p \in Procs |-> NoCalls]
    /\ reached = <<>>
    /\ admitted = <<>>
    /\ first = <<>>
    /\ rk = RankIdle
    /\ users = <<>>
    /\ sess = [p \in Procs |-> SessIdle]
    /\ registered = {}

NextSession ==
    \/ \E p \in Procs :
        \/ \E email \in SessionEmails, password \in SessionPasswords,
              salt \in Salts :
              RegisterStart(p, email, password, salt)
        \/ RegisterInsertOne(p)
        \/ RegisterInsertKey(p)
        \/ \E email \in SessionEmails, password \in SessionPasswords :
              LoginUser(p, email, password)
        \/ SessionFinish(p)

SpecSession == InitSession /\ [][NextSession]_vars

----------------------------------------------------------------------------
(* The process from its start, with or without SECRET_KEY in its           *)
(* environment: the startup, then logins and /service requests one at a    *)
(* time                                                                    *)

\* lifespan_resources up to its yield: the model is loaded and the stores
\* are connected; the environment is not looked at
LifespanStartup ==
    /\ ~serving
    /\ serving' = TRUE
    /\ UNCHANGED <<now, redis, api_keys, heads_idx, score_row, tiebreak,
                   secret_key, key_padded, users, sess, registered,
                   h, rk, calls, reached, admitted, first>>

InitSecret ==
    /\ InitService
    /\ secret_key \in {"s3cret", NoSecret}
    /\ key_padded = FALSE
    /\ serving = FALSE

NextSecret ==
    \/ LifespanStartup
    \/ \E email \in SessionEmails, password \in SessionPasswords :
          LoginUser(1, email, password)
    \/ SessionFinish(1)
    \/ \E hdr \in Headers : ServiceStart(1, hdr, "K1", IntInput(0))
    \/ ServiceIncr(1)
    \/ ServiceExpire(1)
    \/ ServiceLookup(1)
    \/ ServiceStore(1)
    \/ ServiceFinish(1)

SpecSecret == InitSecret /\ [][NextSecret]_vars

----------------------------------------------------------------------------
(* Accounts from registration to use: registrations and logins from empty  *)
(* stores, and /service requests that carry a token a login returned and a *)
(* key a registration issued (or an unknown key), one at a time            *)

\* an address of another domain, one of gmail.com, one of another domain
\* that spells gmail.com in its local part
AccountEmails == {"a@x.org", "b@gmail.com", "gmail.com@x.org"}

\* the requests that reach the limiter, per key
MaxAccountCalls == 2

\* the tokens of the logins answered 200 and not yet sent
LoginTokens ==
    {sess[p].token : p \in {q \in Procs : /\ sess[q].op = "login"
                                          /\ sess[q].pc = "done"
                                          /\ sess[q].status = HTTP_200_OK}}

\* a /service request of the holder of a token and a key
AccountServiceStart(hdr, api_key) ==
    /\ Reached(UsageKey(api_key, CurrentMinute(now))) < MaxAccountCalls
    /\ ServiceStart(1, hdr, api_key, IntInput(0))

NextAccounts ==
    \/ \E email \in AccountEmails : RegisterStart(1, email, "pw1", "s1")
    \/ RegisterInsertOne(1)
    \/ RegisterInsertKey(1)
    \/ \E email \in AccountEmails, password \in SessionPasswords :
          LoginUser(1, email, password)
    \/ SessionFinish(1)
    \/ \E hdr \in LoginTokens \cup {NoHeader}, k \in IssuedKeys \cup {"KX"} :
          AccountServiceStart(hdr, k)
    \/ ServiceIncr(1)
    \/ ServiceExpire(1)
    \/ ServiceLookup(1)
    \/ ServiceStore(1)
    \/ ServiceFinish(1)

SpecAccounts == InitSession /\ [][NextAccounts]_vars

----------------------------------------------------------------------------
(* Sequential traffic on one key of each account type, within one minute *)

TierKeys == {"K1", "K2", "K3"}

NextTiers ==
    \/ \E k \in TierKeys : ServiceStart(1, ValidHeader, k, IntInput(0))
    \/ ServiceIncr(1)
    \/ ServiceExpire(1)
    \/ ServiceLookup(1)
    \/ ServiceStore(1)
    \/ ServiceFinish(1)

SpecTiers == Init /\ [][NextTiers]_vars

----------------------------------------------------------------------------
(* Direct calls of TransHModel.predict_similarity on every loaded model    *)

RECURSIVE SeqsUpTo(_, _)
SeqsUpTo(S, n) ==
    IF n = 0 THEN {<<>>}
    ELSE LET shorter == SeqsUpTo(S, n - 1)
         IN shorter \cup {Append(q, x) : q \in shorter, x \in S}

ScoreVals == {-1, 0}

RankInputs ==
    {IntInput(n) : n \in -1 .. NumEntities}
        \cup {StrInput(l) : l \in EntityLabels \cup {"0", "zz"}}
        \cup {OtherInput}

InitRank ==
    /\ now = 0
    /\ redis = <<>>
    /\ api_keys = {}
    /\ heads_idx \in SeqsUpTo(EntityIds, NumEntities)
    /\ score_row \in [EntityIds -> ScoreVals]
    /\ tiebreak \in {[e \in EntityIds |-> e], [e \in EntityIds |-> -e]}
    /\ secret_key = "s3cret"
    /\ serving = TRUE
    /\ key_padded = FALSE
    /\ h = [p \in Procs |-> Idle]
    /\ calls = [p \in Procs |-> NoCalls]
    /\ reached = <<>>
    /\ admitted = <<>>
    /\ first = <<>>
    /\ rk = RankIdle
    /\ users = <<>>
    /\ sess = [p \in Procs |-> SessIdle]
    /\ registered = {}

RankCall(entity_input, top_k) ==
    /\ ~rk.called
    /\ rk' = [called |-> TRUE, entity_input |-> entity_input, top_k |-> top_k,
              v |-> ValidateInput(entity_input),
              result |-> PredictSimilarity(entity_input, DEFAULT_RELATION_IDX, top_k)]
    /\ UNCHANGED <<now, redis, world, h, calls, reached, admitted, first>>

RankReturn ==
    /\ rk.called
    /\ rk' = RankIdle
    /\ UNCHANGED <<now, redis, world, h, calls, reached, admitted, first>>

NextRank ==
    \/ \E x \in RankInputs, k \in 0 .. MaxTopK : RankCall(x, k)
    \/ RankReturn

SpecRank == InitRank /\ [][NextRank]_vars

----------------------------------------------------------------------------
(* Vocabulary of the properties *)

HasStage(p, name) ==
    \E k \in 1 .. Len(calls[p].stages) : calls[p].stages[k] = name

\* the limiter has decided on worker p's request and nothing later has run
Decided(p) ==
    /\ HasStage(p, "incr")
    /\ ~HasStage(p, "get")
    /\ h[p].pc \in {"cache", "done"}

LetThrough(p) == Decided(p) /\ h[p].pc = "cache"

QuotaExceeded(p) ==
    Decided(p) /\ h[p].pc = "done" /\ h[p].status = HTTP_429_TOO_MANY_REQUESTS

\* the limits the specification gives the tiers
TierLimit(account_type) ==
    CASE account_type = "FREEMIUM" -> 5
      [] account_type = "PREMIUM" -> 50
      [] OTHER -> 5

TierOfKey(api_key) ==
    (CHOOSE r \in api_keys : r.api_key = api_key).account_type

PipelineOrder ==
    <<"auth", "registry", "incr", "expire", "get", "rank", "oracle", "set">>

Position(name) == CHOOSE k \in 1 .. Len(PipelineOrder) : PipelineOrder[k] = name

InOrder(stages) ==
    \A k \in 1 .. Len(stages) - 1 : Position(stages[k]) < Position(stages[k + 1])

----------------------------------------------------------------------------
(* C1: of the requests that reach the limiter for one API key in one       *)
(* minute, the first L (the limit of the key's tier) are let through and   *)
(* every later one is answered 429; the count starts again in the next     *)
(* minute, so the first request of that minute is let through.             *)
(* The n-th arrival is let through iff n <= L.                             *)

C1_FirstLAdmitted ==
    \A p \in Procs :
        Decided(p) =>
            LET n == calls[p].arrival
                L == TierLimit(TierOfKey(h[p].api_key))
            IN (n <= L => LetThrough(p)) /\ (n > L => QuotaExceeded(p))

----------------------------------------------------------------------------
(* C2: concurrent admit calls on one usage key each observe their own      *)
(* post-increment count, the count of the n-th call being n (no update is  *)
(* lost), and no more requests are let through per key and minute than     *)
(* the limit of the key's tier.                                            *)

C2_NoLostUpdate ==
    /\ \A p \in Procs :
          calls[p].count > 0 => calls[p].count = calls[p].arrival
    /\ \A p, q \in Procs :
          (p # q /\ calls[p].count > 0 /\ calls[p].ukey = calls[q].ukey)
              => calls[p].count # calls[q].count
    /\ \A r \in api_keys : \A m \in 0 .. MaxTicks :
          Count(admitted, UsageKey(r.api_key, m)) <= TierLimit(r.account_type)

\* two workers at the limiter on the same key: the 5th call let through,
\* the 6th refused
C2_Witness ==
    \E p, q \in Procs :
        /\ p # q
        /\ calls[p].ukey = calls[q].ukey
        /\ LetThrough(p) /\ calls[p].count = 5
        /\ QuotaExceeded(q) /\ calls[q].count = 6
        /\ Count(admitted, calls[p].ukey) = 5

----------------------------------------------------------------------------
(* C3: the limit the limiter applies depends on the account type of the    *)
(* key's row alone: 5 for FREEMIUM, 50 for PREMIUM, 5 for any other value. *)
(* A request is answered 429 iff its post-increment count exceeds it.      *)

C3_LimitByTier ==
    \A p \in Procs :
        Decided(p) =>
            /\ h[p].account_type = TierOfKey(h[p].api_key)
            /\ QuotaExceeded(p) <=> calls[p].count > TierLimit(h[p].account_type)
            /\ LetThrough(p) <=> calls[p].count <= TierLimit(h[p].account_type)

\* the key of the unknown account type refused at its 6th request, after the
\* PREMIUM key was refused at its 51st and let through up to its 50th
C3_Witness ==
    /\ QuotaExceeded(1)
    /\ h[1].account_type = "GOLD"
    /\ calls[1].count = 6
    /\ Count(admitted, UsageKey("K2", 0)) = 50
    /\ Count(reached, UsageKey("K2", 0)) = 51
    /\ Count(admitted, UsageKey("K1", 0)) = 5

----------------------------------------------------------------------------
(* C4: a request runs AuthGate, KeyRegistry, RateLimiter, cache lookup,    *)
(* Ranker, cache write in that order, each at most once, and stops at the  *)
(* first that fails: answered 401 it has incremented no counter, answered  *)
(* 429 it has neither read the cache, ranked nor written, and a request    *)
(* goes on to the cache only with a resolved key and a count within the    *)
(* limit.                                                                  *)

C4_FixedOrderFailFast ==
    \A p \in Procs :
        /\ InOrder(calls[p].stages)
        /\ (h[p].pc = "done" /\ h[p].status = HTTP_401_UNAUTHORIZED)
              => /\ \A name \in {"incr", "expire", "get", "rank", "oracle", "set"} :
                       ~HasStage(p, name)
                 /\ calls[p].arrival = 0
        /\ (h[p].pc = "done" /\ h[p].status = HTTP_429_TOO_MANY_REQUESTS)
              => /\ HasStage(p, "incr")
                 /\ \A name \in {"get", "rank", "oracle", "set"} : ~HasStage(p, name)
                 /\ h[p].result = <<>>
        /\ HasStage(p, "incr") => (HasStage(p, "auth") /\ HasStage(p, "registry")
                                     /\ GetApiKeyInfo(h[p].api_key).found)
        /\ HasStage(p, "get") => HasStage(p, "incr")
        /\ HasStage(p, "set") => (HasStage(p, "get") /\ HasStage(p, "rank"))
        /\ LetThrough(p) => calls[p].count <= TierLimit(h[p].account_type)

\* one request refused by the limiter while another was refused by AuthGate
C4_Witness ==
    \E p, q \in Procs :
        /\ QuotaExceeded(p)
        /\ h[q].pc = "done" /\ h[q].status = HTTP_401_UNAUTHORIZED
        /\ h[q].detail = "Invalid JWT Token."

----------------------------------------------------------------------------
(* C5: once a request for a valid entity input has ranked and answered     *)
(* cache=false, every request for the same input that starts later and     *)
(* gets past the limiter answers cache=true with the same result.          *)

C5_SecondCallCached ==
    \A p \in Procs :
        (calls[p].after /\ HasStage(p, "get")) =>
            /\ h[p].pc = "done"
            /\ h[p].status = HTTP_200_OK
            /\ h[p].cache
            /\ h[p].result = first[h[p].entity_input]

----------------------------------------------------------------------------
(* C6: a request whose lookup finds the key in the store runs neither the  *)
(* Ranker nor the Oracle and writes nothing; the Oracle runs only for      *)
(* requests whose lookup found the key absent.                             *)

C6_HitShortCircuits ==
    \A p \in Procs :
        /\ calls[p].lookup = "present"
              => \A name \in {"rank", "oracle", "set"} : ~HasStage(p, name)
        /\ HasStage(p, "oracle") => calls[p].lookup = "absent"
        /\ (h[p].pc = "done" /\ h[p].cache)
              => (calls[p].lookup = "present" /\ ~HasStage(p, "oracle"))

\* one request served from the cache while another has called the Oracle
C6_Witness ==
    \E p, q \in Procs :
        /\ calls[p].lookup = "present" /\ h[p].pc = "done" /\ h[p].cache
        /\ h[p].status = HTTP_200_OK
        /\ HasStage(q, "oracle")

----------------------------------------------------------------------------
(* C7: a request whose entity input fails validation ends with a 4xx       *)
(* response that carries no result; it never ends with 200 and a result    *)
(* holding the error message and a marker score.                           *)

C7_ValidationFailureRejected ==
    \A p \in Procs :
        (h[p].pc = "done" /\ HasStage(p, "rank")
            /\ ~ValidateInput(h[p].entity_input).ok)
          => (h[p].status \in 400 .. 499 /\ h[p].result = <<>>)

----------------------------------------------------------------------------
(* Vocabulary of the ranking claims *)

\* the CandidateSet, as a set of entity indices
CandidateSet == {heads_idx[k] : k \in 1 .. Len(heads_idx)}

\* the label-to-index table, as the set of labels it maps
KnownLabels == {EntityIdToLabel(e) : e \in EntityIds}

\* the error kinds of the specification, by the raise statement that fails
EntityNotAllowed(v) == ~v.ok /\ v.exc = "ValueError"
                          /\ v.site \in {"id_not_in_heads", "label_not_allowed"}
UnknownEntityLabel(v) == ~v.ok /\ v.exc = "ValueError" /\ v.site = "label_not_found"
InvalidEntityInputType(v) == ~v.ok /\ v.exc = "TypeError" /\ v.site = "bad_type"

\* the index a label maps to, when the table has it
IndexOfLabel(label) == CHOOSE e \in EntityIds : EntityIdToLabel(e) = label

\* positions of the ascending order that are inside the CandidateSet table
InBoundsPositions == {e \in EntityIds : e < Len(heads_idx)}

Min(a, b) == IF a <= b THEN a ELSE b

RankSucceeded == rk.called /\ rk.v.ok

(* C8: validation classifies every input: an integer outside the           *)
(* CandidateSet fails with EntityNotAllowed; a string absent from the      *)
(* label table fails with UnknownEntityLabel; a string whose index is      *)
(* outside the CandidateSet fails with EntityNotAllowed; any other type    *)
(* fails with InvalidEntityInputType; an integer in the CandidateSet or a  *)
(* label mapping into it validates and yields that entity index.           *)

C8_ValidationClassifies ==
    rk.called =>
        LET x == rk.entity_input
            v == rk.v
        IN /\ (x.ty = "int" /\ x.i \notin CandidateSet) => EntityNotAllowed(v)
           /\ (x.ty = "int" /\ x.i \in CandidateSet) => (v.ok /\ v.id = x.i)
           /\ (x.ty = "str" /\ x.s \notin KnownLabels) => UnknownEntityLabel(v)
           /\ (x.ty = "str" /\ x.s \in KnownLabels
                  /\ IndexOfLabel(x.s) \notin CandidateSet) => EntityNotAllowed(v)
           /\ (x.ty = "str" /\ x.s \in KnownLabels
                  /\ IndexOfLabel(x.s) \in CandidateSet)
                => (v.ok /\ v.id = IndexOfLabel(x.s))
           /\ (x.ty \notin {"int", "str"}) => InvalidEntityInputType(v)

\* a known label whose index is outside a non-empty CandidateSet was refused
C8_Witness ==
    /\ rk.called
    /\ rk.entity_input.ty = "str"
    /\ rk.entity_input.s \in KnownLabels
    /\ CandidateSet # {}
    /\ IndexOfLabel(rk.entity_input.s) \notin CandidateSet
    /\ EntityNotAllowed(rk.v)

(* C9: every successful rank call returns at most topK entries, in         *)
(* ascending score order: score[i] <= score[i+1] for consecutive entries.  *)

C9_BoundedAscending ==
    RankSucceeded =>
        /\ Len(rk.result) <= rk.top_k
        /\ \A i \in 1 .. (Len(rk.result) - 1) :
              rk.result[i][2] <= rk.result[i + 1][2]

(* C10: a successful rank call returns exactly min(topK, number of         *)
(* in-bounds positions) entries, and every returned label is the label of  *)
(* a CandidateSet member.                                                  *)

C10_ExactCountFromCandidates ==
    RankSucceeded =>
        /\ Len(rk.result) = Min(rk.top_k, Cardinality(InBoundsPositions))
        /\ \A i \in 1 .. Len(rk.result) :
              \E e \in CandidateSet : rk.result[i][1] = EntityIdToLabel(e)

----------------------------------------------------------------------------
(* Vocabulary of the gate claims *)

\* a request arrives at worker p in this step
Arrives(p) == h[p].pc = "idle" /\ h'[p].pc # "idle"

Answered(r, status, detail) ==
    r.pc = "done" /\ r.status = status /\ r.detail = detail

MissingToken(hdr) == hdr.scheme # "Bearer"

InvalidToken(hdr) == hdr.scheme = "Bearer" /\ (~hdr.signed \/ ~hdr.wellformed)

ExpiredToken(hdr, t) ==
    hdr.scheme = "Bearer" /\ hdr.signed /\ hdr.wellformed /\ hdr.exp <= t

AuthFailures ==
    {"JWT Token not provided.", "Invalid JWT Token.", "JWT Token has expired."}

\* the request got past AuthGate
PassedAuth(r) == ~(r.pc = "done" /\ r.detail \in AuthFailures \cup {"TypeError"})

(* C11: AuthGate gives every header exactly one outcome: MissingToken for  *)
(* no header or no Bearer prefix; InvalidToken for a bad signature or a    *)
(* malformed token, whatever its expiry; ExpiredToken for a verified token *)
(* whose expiry has passed; success otherwise.  The failures are 401s.     *)

C11_AuthClassifies ==
    [][\A p \in Procs :
          Arrives(p) =>
              LET hdr == calls'[p].hdr
                  r == h'[p]
              IN /\ MissingToken(hdr)
                      <=> Answered(r, 401, "JWT Token not provided.")
                 /\ InvalidToken(hdr) <=> Answered(r, 401, "Invalid JWT Token.")
                 /\ ExpiredToken(hdr, now)
                      <=> Answered(r, 401, "JWT Token has expired.")
                 /\ (~MissingToken(hdr) /\ ~InvalidToken(hdr)
                        /\ ~ExpiredToken(hdr, now)) <=> PassedAuth(r)]_vars

\* a tampered token whose expiry has passed as well, answered InvalidToken
C11_Witness ==
    \E p \in Procs :
        /\ calls[p].hdr.scheme = "Bearer"
        /\ calls[p].hdr.wellformed /\ ~calls[p].hdr.signed
        /\ calls[p].hdr.exp <= 0
        /\ Answered(h[p], 401, "Invalid JWT Token.")

(* C12: key resolution answers MissingAPIKey when no key is supplied,      *)
(* InvalidAPIKey when no record of the registry has exactly the supplied   *)
(* key (none comes back, or the one that comes back echoes another key),   *)
(* and otherwise passes on the tier stored for the key; it changes neither *)
(* the registry nor the store.                                             *)

C12_KeyResolution ==
    [][\A p \in Procs :
          (Arrives(p) /\ PassedAuth(h'[p])) =>
              LET k == h'[p].api_key
                  r == h'[p]
                  known == \E row \in api_keys : row.api_key = k
              IN /\ k = "" <=> Answered(r, 401, "API Key not provided.")
                 /\ (k # "" /\ ~known) <=> Answered(r, 401, "Invalid API Key.")
                 /\ known <=> (r.pc = "rate" /\ r.account_type = TierOfKey(k))
                 /\ UNCHANGED <<api_keys, redis>>]_vars

\* a known key followed by a blank, found by a blank-padded column and
\* refused because the record echoes the key without the blank
C12_Witness ==
    \E p \in Procs :
        /\ key_padded
        /\ h[p].api_key = "K1 "
        /\ GetApiKeyInfo("K1 ").found
        /\ Answered(h[p], 401, "Invalid API Key.")

----------------------------------------------------------------------------
(* Vocabulary of the session properties *)

\* worker p takes in a /register or a /login request in this step
SessArrives(p, op) ==
    sess[p].pc = "idle" /\ sess'[p].pc # "idle" /\ sess'[p].op = op

SessAnswered(r, status, detail) ==
    r.pc = "done" /\ r.status = status /\ r.detail = detail

HasCredential(email) == \E k \in DOMAIN users : users[k].email = email

CredentialsOf(email) == {k \in DOMAIN users : users[k].email = email}

KeysOf(email) == {row \in api_keys : row.user_email = email}

(* C13: a registration for an email that has a stored credential is        *)
(* answered 400 (RegistrationConflict) and changes neither the credential  *)
(* store nor the API key table; a registration for an email without one is *)
(* not refused, and when it answers 200 it returns a key no row carried    *)
(* before, recorded in exactly one new row owned by that email.  So of two *)
(* registrations of one email in sequence the first succeeds and the       *)
(* second conflicts, leaving the credential and the key record as they     *)
(* were.                                                                   *)
C13_RegisterTwice ==
    [][\A p \in Procs :
        /\ SessArrives(p, "register") =>
             IF HasCredential(sess'[p].email)
             THEN /\ SessAnswered(sess'[p], HTTP_400_BAD_REQUEST,
                         "User already exists or error creating user.")
                  /\ UNCHANGED <<users, api_keys>>
             ELSE sess'[p].pc # "done"
        /\ (sess[p].op = "register" /\ sess[p].pc # "done"
                /\ sess'[p].pc = "done" /\ sess'[p].status = HTTP_200_OK) =>
             /\ sess'[p].api_key \notin IssuedKeys
             /\ api_keys' = api_keys \cup
                    {[api_key |-> sess'[p].api_key,
                      user_email |-> sess'[p].email,
                      account_type |-> sess'[p].account_type]}
             /\ HasCredential(sess'[p].email)
             /\ UNCHANGED users]_vars

\* a second registration of a registered email has been refused, the email
\* holding its one credential and its one key
C13_Witness ==
    \E p \in Procs :
        /\ sess[p].op = "register"
        /\ SessAnswered(sess[p], HTTP_400_BAD_REQUEST,
                        "User already exists or error creating user.")
        /\ \E pw \in SessionPasswords : <<sess[p].email, pw>> \in registered
        /\ Cardinality(CredentialsOf(sess[p].email)) = 1
        /\ Cardinality(KeysOf(sess[p].email)) = 1

\* some stored credential of the email verifies the password
Verifies(email, password) ==
    \E k \in CredentialsOf(email) : Verify(password, users[k].password)

\* the answer of a /login request to email with password
LoginContract(r, email, password) ==
    /\ IF Verifies(email, password)
       THEN /\ SessAnswered(r, HTTP_200_OK, "Welcome back!")
            /\ r.token.scheme = "Bearer" /\ r.token.signed
            /\ r.token.sub = email
       ELSE /\ SessAnswered(r, HTTP_400_BAD_REQUEST, "Invalid email or password.")
            /\ r.token = NoHeader
    /\ <<email, password>> \in registered => r.status = HTTP_200_OK

(* C14: a /login is answered with a token exactly when the email has a     *)
(* stored credential that verifies the password, the token's subject being *)
(* that email; every other login is answered by one and the same 400,      *)
(* whether the email is unknown or the password wrong; and a login with    *)
(* the email and password of a registration that was answered 200 gets a   *)
(* token.                                                                  *)
C14_LoginContract ==
    [][\A p \in Procs :
        SessArrives(p, "login") =>
            LoginContract(sess'[p], sess'[p].email, sess'[p].password)]_vars

\* the same, for logins made while no email has two credentials
C14_LoginUniqueEmails ==
    [][\A p \in Procs :
        (SessArrives(p, "login")
            /\ \A e \in SessionEmails : Cardinality(CredentialsOf(e)) <= 1) =>
            LoginContract(sess'[p], sess'[p].email, sess'[p].password)]_vars

\* worker p is handling a /login or a /service request
HandlesTokenRequest(p) ==
    \/ sess[p].pc # "idle" /\ sess[p].op = "login"
    \/ h[p].pc # "idle"

(* C15: a process without a signing secret never comes to serve requests,  *)
(* so no /login and no /service request is handled while the secret is     *)
(* missing, and none is answered 500 for the want of it.                   *)
C15_SecretFatalAtStartup ==
    /\ serving => secret_key # NoSecret
    /\ \A p \in Procs :
        /\ HandlesTokenRequest(p) => secret_key # NoSecret
        /\ ~SessAnswered(sess[p], HTTP_500_INTERNAL_SERVER_ERROR, "TypeError")
        /\ ~(h[p].pc = "done" /\ h[p].status = HTTP_500_INTERNAL_SERVER_ERROR)

----------------------------------------------------------------------------
(* Vocabulary of the cache properties *)

\* the keys of the ResultCache: the Redis keys that hold a cached result
CacheKeys(store) == {key \in DOMAIN store : store[key].t = "json"}

\* worker p performs its store in this step
Stores(p) == h[p].pc = "store" /\ h'[p].pc = "done"

C17_OnlyRankingCreates ==
    [][\A p \in Procs :
        /\ (Stores(p) /\ ~ValidateInput(h[p].entity_input).ok) =>
              /\ CacheKeys(redis') = CacheKeys(redis)
              /\ \A key \in CacheKeys(redis) : redis'[key] = redis[key]
        /\ (h'[p].pc = "done" /\ ~ValidateInput(h'[p].entity_input).ok) =>
              ~h'[p].cache]_vars

----------------------------------------------------------------------------
(* Vocabulary of the registry properties *)

\* no two rows carry one key
OneRowPerKey ==
    \A r1 \in api_keys, r2 \in api_keys : r1.api_key = r2.api_key => r1 = r2

\* worker p's /service request takes a step
ServiceSteps(p) == h'[p] # h[p]

\* worker p's /login request takes a step
LoginSteps(p) ==
    sess'[p] # sess[p] /\ (sess[p].op = "login" \/ sess'[p].op = "login")

\* worker p's /register request inserts its key
InsertsKey(p) == sess[p].op = "register" /\ sess[p].pc = "insert_key"

----------------------------------------------------------------------------
\* worker p's request was let through, missed the cache, ranked, stored and
\* answered
MissedAndAnswered(p) ==
    /\ h[p].pc = "done" /\ h[p].status = HTTP_200_OK /\ ~h[p].cache
    /\ HasStage(p, "set")

\* the requests of workers p and q overlapped: both missed the cache on one
\* valid entity input, and both have answered
BothMissed(p, q) ==
    /\ p # q
    /\ MissedAndAnswered(p) /\ MissedAndAnswered(q)
    /\ h[p].entity_input = h[q].entity_input
    /\ ValidateInput(h[p].entity_input).ok

----------------------------------------------------------------------------
\* the counter of api_key in the window of second t is what Redis holds
\* under its usage key: an integer that equals the number of admit calls
\* made for the key in the window, with no expiry before the window's end
CounterCounts(api_key, t) ==
    LET key == UsageKey(api_key, CurrentMinute(t))
    IN  IF Reached(key) = 0
        THEN ~RedisHas(redis, key)
        ELSE /\ RedisHas(redis, key)
             /\ redis[key].t = "int"
             /\ redis[key].n = Reached(key)
             /\ \/ redis[key].exp = NoExpiry
                \/ redis[key].exp >= (CurrentMinute(t) + 1) * WINDOW_SECONDS

(* C20: at every point the counter of a key in the current window equals   *)
(* the number of admit calls made so far for the key in the window, the    *)
(* calls answered 429 and the calls served from the cache included; so it  *)
(* only grows, and it neither resets nor expires before the window ends.   *)
C20_CounterCountsAdmitCalls ==
    \A row \in api_keys : CounterCounts(row.api_key, now)

----------------------------------------------------------------------------
(* Vocabulary of the counter properties *)

\* the windows of the model
Windows == 0 .. MaxTicks

\* an admit call on the usage key has incremented and not yet returned
AdmitInFlight(key) ==
    \E p \in Procs : h[p].pc = "expire" /\ h[p].redis_key = key

\* the second at which the window begins: the earliest creation of its
\* counters
WindowStart(m) == m * WINDOW_SECONDS

(* C21: no rate counter persists without an expiry: once the admit calls   *)
(* in flight on it have finished, a counter carries an expiry of at most   *)
(* 60 seconds from its creation, and it is gone when that expiry has       *)
(* passed.                                                                 *)
C21_CountersExpire ==
    \A row \in api_keys, m \in Windows :
        LET key == UsageKey(row.api_key, m)
        IN  (RedisHas(redis, key) /\ redis[key].t = "int") =>
               /\ ~AdmitInFlight(key) =>
                     /\ redis[key].exp # NoExpiry
                     /\ redis[key].exp <= WindowStart(m) + EXPIRE_SECONDS
               /\ redis[key].exp # NoExpiry => redis[key].exp > now

\* the same without the bound of 60 seconds: a counter with no admit call
\* in flight carries an expiry, and is gone when it has passed
C21_ExpirySet ==
    \A row \in api_keys, m \in Windows :
        LET key == UsageKey(row.api_key, m)
        IN  (RedisHas(redis, key) /\ redis[key].t = "int") =>
               /\ ~AdmitInFlight(key) => redis[key].exp # NoExpiry
               /\ redis[key].exp # NoExpiry => redis[key].exp > now

----------------------------------------------------------------------------
(* C22: emails are unique in the credential store under concurrency: of    *)
(* the registrations of one email, in flight at once or not, at most one   *)
(* succeeds, so that the email has at most one credential and at most one  *)
(* API key (each registration answered 200 has added one key row).         *)
C22_UniqueEmails ==
    \A email \in SessionEmails :
        /\ Cardinality(CredentialsOf(email)) <= 1
        /\ Cardinality(KeysOf(email)) <= 1

----------------------------------------------------------------------------
\* the API key of the request of worker p that takes this step
SteppingKey(p) == IF h[p].pc = "idle" THEN h'[p].api_key ELSE h[p].api_key

\* what Redis holds under the usage key stays as it is
CounterUntouched(key) ==
    /\ RedisHas(redis', key) <=> RedisHas(redis, key)
    /\ RedisHas(redis, key) => redis'[key] = redis[key]

\* the limiter decides on a request by the number of the requests of its
\* key that reached the limiter in the window before it, and the key's tier
DecidedByOwnCount ==
    \A p \in Procs :
        Decided(p) =>
            LET n == calls[p].arrival
                L == TierLimit(TierOfKey(h[p].api_key))
            IN  LetThrough(p) <=> n <= L

(* C23: quotas are isolated per API key: no step of a request made with    *)
(* key A changes what the store holds as the counter of another key B, in  *)
(* any window, and a request with key B is let through exactly when fewer  *)
(* than the limit of B's tier requests with key B reached the limiter      *)
(* before it in the window.                                                *)
C23_QuotasIsolated ==
    [][/\ \A p \in Procs :
            ServiceSteps(p) =>
                \A row \in api_keys, m \in Windows :
                    row.api_key # SteppingKey(p) =>
                        CounterUntouched(UsageKey(row.api_key, m))
       /\ DecidedByOwnCount']_vars

----------------------------------------------------------------------------
\* the keys of the rate counters: the usage keys of the registered keys
CounterKeys == {UsageKey(row.api_key, m) : row \in api_keys, m \in Windows}

\* worker p performs its cache lookup in this step
LooksUp(p) == h[p].pc = "cache" /\ h'[p].pc # "cache"

\* worker p runs a command of its admit call in this step
AdmitSteps(p) == h[p].pc \in {"rate", "expire"} /\ h'[p] # h[p]

(* C24: rate counters and cache entries never interfere in the shared      *)
(* store, whatever the entity input: no cache lookup finds the value of a  *)
(* counter, no cache store writes the key of a counter, and what the store *)
(* holds under the counter key of an API key changes only in a command of  *)
(* an admit call for that API key (or when its expiry passes).             *)
C24_NoInterference ==
    [][/\ \A p \in Procs :
            /\ LooksUp(p) =>
                  LET key == RedisKeyOf(h[p].entity_input)
                  IN  ~(RedisHas(redis, key) /\ redis[key].t = "int")
            /\ Stores(p) => RedisKeyOf(h[p].entity_input) \notin CounterKeys
       /\ \A row \in api_keys, m \in Windows :
            (now' = now /\ ~CounterUntouched(UsageKey(row.api_key, m))) =>
                \E p \in Procs : AdmitSteps(p) /\ h[p].api_key = row.api_key]_vars

----------------------------------------------------------------------------
\* what a request whose entity input is exactly x stores, and nothing else
StoredFor(x) ==
    JsonLoads(JsonDumps(PredictSimilarity(x, DEFAULT_RELATION_IDX, DEFAULT_TOP_K)))

(* C25: distinct entity inputs never share a cache entry, an integer and   *)
(* the string of its digits being distinct inputs: a lookup for input x    *)
(* that answers from the cache answers a result that a request with input  *)
(* exactly x stored, which is the result of x and of no other input.       *)
C25_NoSharedEntry ==
    [][\A p \in Procs :
        (LooksUp(p) /\ h'[p].pc = "done" /\ h'[p].cache) =>
            h'[p].result = StoredFor(h[p].entity_input)]_vars

----------------------------------------------------------------------------
\* The entity that a returned label names (labels are one per entity)
EntityOfLabel(label) == CHOOSE e \in EntityIds : EntityIdToLabel(e) = label

OracleScores == ScoreT(rk.v.id, DEFAULT_RELATION_IDX)

(* C26: in every pair (label, score) that a successful rank call returns,  *)
(* the score is the Similarity Oracle's score of the entity the label      *)
(* names: for the label of entity e, the score is the Oracle's output at   *)
(* entity-space index e for the queried (entity, relation).                *)
C26_ScoreOfNamedEntity ==
    (rk.called /\ rk.v.ok) =>
        \A k \in 1 .. Len(rk.result) :
            /\ rk.result[k][1] \in EntityLabels
            /\ rk.result[k][2] = OracleScores[EntityOfLabel(rk.result[k][1])]

\* What the code pairs instead: the label of heads_idx[i] with the Oracle's
\* score at entity-space index i
C26_ScoreOfPosition ==
    (rk.called /\ rk.v.ok) =>
        \A k \in 1 .. Len(rk.result) :
            \E i \in EntityIds :
                /\ SafeResolve(i).some
                /\ rk.result[k][1] = EntityIdToLabel(SafeResolve(i).v)
                /\ rk.result[k][2] = OracleScores[i]

\* With heads_idx the identity list the two readings coincide
C26_IdentityHeads ==
    (rk.called /\ rk.v.ok /\ heads_idx = <<0, 1, 2>>) =>
        \A k \in 1 .. Len(rk.result) :
            rk.result[k][2] = OracleScores[EntityOfLabel(rk.result[k][1])]

----------------------------------------------------------------------------
\* the user_email of the row of a registered key
OwnerOfKey(api_key) == (CHOOSE r \in api_keys : r.api_key = api_key).user_email

Registered(api_key) == \E row \in api_keys : row.api_key = api_key

TokenVerifies(hdr, t) ==
    ~MissingToken(hdr) /\ ~InvalidToken(hdr) /\ ~ExpiredToken(hdr, t)

\* worker p has been let through authentication and key resolution
PastGate(r) == r.pc \in {"rate", "expire", "cache", "store"}

(* C27: a /service request passes authentication and key resolution only   *)
(* when the subject of its verified token is the owner of the supplied API *)
(* key; a valid token of one user with the key of another is rejected and  *)
(* never counted against that key.                                         *)
C27_TokenOwnsKey ==
    [][\A p \in Procs :
          /\ (Arrives(p) /\ PastGate(h'[p])) =>
                 calls'[p].hdr.sub = OwnerOfKey(h'[p].api_key)
          /\ (h[p].pc = "rate" /\ h'[p] # h[p]) =>
                 calls[p].hdr.sub = OwnerOfKey(h[p].api_key)]_vars

(* C27 as the handler has it: a /service request passes authentication and *)
(* key resolution exactly when its token verifies and the supplied key is  *)
(* registered, whoever the token's subject and the key's owner are; the    *)
(* request is then limited at the tier of the key and counted against it.  *)
C27_GateIgnoresOwner ==
    [][\A p \in Procs :
          /\ Arrives(p) =>
                 /\ PastGate(h'[p])
                      <=> /\ TokenVerifies(calls'[p].hdr, now)
                          /\ Registered(h'[p].api_key)
                 /\ PastGate(h'[p]) =>
                      h'[p].account_type = TierOfKey(h'[p].api_key)
          /\ (h[p].pc = "rate" /\ h'[p] # h[p]) =>
                 LET key == UsageKey(h[p].api_key, CurrentMinute(now))
                 IN /\ RedisHas(redis', key)
                    /\ redis'[key].n = (IF RedisHas(redis, key)
                                        THEN redis[key].n ELSE 0) + 1]_vars

\* the token of one user and the key of another: let through and counted
C27_Witness ==
    \E p \in Procs :
        /\ calls[p].hdr.scheme = "Bearer"
        /\ Registered(h[p].api_key)
        /\ calls[p].hdr.sub # OwnerOfKey(h[p].api_key)
        /\ \E k \in 1 .. Len(calls[p].stages) : calls[p].stages[k] = "incr"
        /\ RedisHas(redis, UsageKey(h[p].api_key, CurrentMinute(now)))
        /\ Answered(h[p], HTTP_200_OK, "")

----------------------------------------------------------------------------
\* a registration of the email is between its first write and its response
RegisterInFlight(email) ==
    \E p \in Procs : /\ sess[p].op = "register"
                     /\ sess[p].email = email
                     /\ sess[p].pc \in {"insert_one", "insert_key"}

\* the register call of worker p stored a credential and returned no key
RegisterFailedAfterStore(p) ==
    /\ sess[p].op = "register"
    /\ SessAnswered(sess[p], HTTP_500_INTERNAL_SERVER_ERROR, "IndexError")

(* C28: registration is all-or-nothing.  Whatever register calls have run,  *)
(* the failing API key inserts among them included, every email of the     *)
(* Credential Store has exactly one API key record once no registration of *)
(* it is in progress, and a register call that stored a credential and     *)
(* returned no API key has left no credential for its email.               *)
C28_AllOrNothing ==
    /\ \A email \in SessionEmails \cup AccountEmails :
          (HasCredential(email) /\ ~RegisterInFlight(email)) =>
              Cardinality(KeysOf(email)) = 1
    /\ \A p \in Procs :
          RegisterFailedAfterStore(p) => ~HasCredential(sess[p].email)

\* without a failing insert and without a second registration of the email
\* in progress, a stored credential has its one key
C28_OneKeyWhenInsertsSucceed ==
    (/\ C22_UniqueEmails
     /\ \A k \in DOMAIN users : users[k].email \in {e[1] : e \in registered}
           \/ RegisterInFlight(users[k].email)) =>
        \A email \in SessionEmails :
            (HasCredential(email) /\ ~RegisterInFlight(email)) =>
                Cardinality(KeysOf(email)) = 1

============================================================================
